---- MODULE Spec2Model ----
(***************************************************************************)
(* Model of rlgym-learn's PPO trajectory aggregation and iteration         *)
(* scheduling:                                                             *)
(*   src/rlgym_learn/standard_impl/ppo/env_trajectories.py                 *)
(*       EnvTrajectories (per-environment tracker)                         *)
(*   src/rlgym_learn/standard_impl/ppo/ppo_agent_controller.py             *)
(*       PPOAgentController (ingestion, reset/step decision, learning      *)
(*       step, value backfill, checkpoint save/load)                       *)
(*                                                                         *)
(* Observations, actions, rewards and log-probabilities are opaque to the  *)
(* code (it stores and moves them, it never inspects them).  They are      *)
(* modelled as tagged tuples that name the call and the position that      *)
(* delivered them, so every stored value is distinguishable from every     *)
(* other one.                                                              *)
(***************************************************************************)
EXTENDS Integers, Sequences, FiniteSets, TLC

VARIABLES
    \* ---- PPOAgentController fields (ppo_agent_controller.py:162-176) ----
    current_env_trajectories,        \* dict env_id -> EnvTrajectories, in insertion order
    current_trajectories,            \* list of Trajectory
    iteration_state_metrics,         \* list of StateMetrics
    cur_iteration,
    iteration_timesteps,
    cumulative_timesteps,
    iteration_start_time,
    timestep_collection_start_time,
    ts_since_last_save,
    metrics_logger,                  \* None, or the logger the factory made (150-153)
    wandb_run_id,                    \* None until a load assigns it (328-331, 396-405)
    wandb_run,                       \* None until load (286-289), or the run wandb.init returned
    \* ---- environment of the controller ----
    config,                          \* agent_controller_config
    clock,                           \* the last reading of time.perf_counter / time.time_ns
    checkpoints,                     \* the run's checkpoint folder: token -> files
    calls,                           \* process_timestep_data calls made so far
    \* ---- observation of the last operation and of the learning steps ----
    last,                            \* what the last operation was given and returned
    learn_log,                       \* timesteps handed to each learning step so far
    saved_controllers,               \* token -> the controller when that checkpoint was written
    accepted_since_reset,            \* environments with a timestep accepted since their last RESET
    \* ---- a single EnvTrajectories instance exercised on its own ----
    et,                              \* the instance
    et_last,                         \* the last call on it: arguments, result, state before
    et_active_rows                   \* per agent: add_steps calls begun while it was not done

ctrlVars == <<current_env_trajectories, current_trajectories, iteration_state_metrics,
              cur_iteration, iteration_timesteps, cumulative_timesteps,
              iteration_start_time, timestep_collection_start_time,
              ts_since_last_save, metrics_logger, wandb_run_id, wandb_run>>
envVars == <<config, clock, checkpoints, calls>>
obsVars == <<last, learn_log, saved_controllers, accepted_since_reset>>
unitVars == <<et, et_last, et_active_rows>>
vars == <<ctrlVars, envVars, obsVars, unitVars>>

----------------------------------------------------------------------------
(* Bounds of the model *)

\* add_steps calls made on the EnvTrajectories instance exercised on its own
MaxAddCalls == 2
\* process_timestep_data calls made on the controller
MaxCalls == 2
\* completed trajectories in a list given to the value backfill on its own
MaxTrajs == 3
\* steps of such a trajectory
MaxTrajLen == 5
\* save_checkpoint calls made from outside process_timestep_data
MaxSaves == 1
\* checkpoints already in the run directory when the retention is exercised
MaxTokens == 6
\* largest retention count exercised
MaxKeep == 6
\* save_checkpoint calls, returning or raising, of a run with failing saves
MaxAttempts == 3

Agents == {"A", "B"}
Envs == {"e1", "e2"}

----------------------------------------------------------------------------
(* Plain helpers *)

Range(s) == {s[i] : i \in 1..Len(s)}

IsInjective(s) == \A i, j \in 1..Len(s) : s[i] = s[j] => i = j

\* all sequences over S of length 0..n
SeqsUpTo(S, n) == UNION {[1..k -> S] : k \in 0..n}

RECURSIVE SumSeq(_)
SumSeq(s) == IF s = <<>> THEN 0 ELSE s[1] + SumSeq(Tail(s))

RECURSIVE Flatten(_)
Flatten(ss) == IF ss = <<>> THEN <<>> ELSE ss[1] \o Flatten(Tail(ss))

----------------------------------------------------------------------------
(* Timestep, Trajectory *)

\* Python's None, as the value of an unset Optional field
None == <<"None">>

\* The Timestep of `agent` whose payload carries `tag` (a tuple that names the
\* delivery: the call and the position in it).
Timestep(agent, tag, terminated, truncated) ==
    [agent_id   |-> agent,
     obs        |-> <<"obs">> \o tag,
     next_obs   |-> <<"next_obs">> \o tag,
     action     |-> <<"action">> \o tag,
     reward     |-> <<"reward">> \o tag,
     terminated |-> terminated,
     truncated  |-> truncated]

\* The log-probability row of the call `tag` for a tracker of `width` agents:
\* one entry per agent, in the tracker's agent order
LogProbRow(tag, width) == [j \in 1..width |-> <<"log_prob">> \o tag \o <<j>>]

\* Trajectory(agent_id, obs_list, action_list, log_probs, reward_list,
\*            val_preds, final_obs, final_val_pred, truncated)
Trajectory(agent_id, obs_list, action_list, log_probs, reward_list, val_preds, final_obs, final_val_pred, truncated) ==
    [agent_id       |-> agent_id,
     obs_list       |-> obs_list,
     action_list    |-> action_list,
     log_probs      |-> log_probs,
     reward_list    |-> reward_list,
     val_preds      |-> val_preds,
     final_obs      |-> final_obs,
     final_val_pred |-> final_val_pred,
     truncated      |-> truncated]

\* Total number of steps in a list of trajectories
StepsIn(trajectories) ==
    SumSeq([i \in 1..Len(trajectories) |-> Len(trajectories[i].obs_list)])

----------------------------------------------------------------------------
(* EnvTrajectories *)

\* EnvTrajectories.__init__
EnvTrajectories(agent_ids) ==
    [agent_ids      |-> agent_ids,
     obs_lists      |-> [a \in Range(agent_ids) |-> <<>>],
     action_lists   |-> [a \in Range(agent_ids) |-> <<>>],
     reward_lists   |-> [a \in Range(agent_ids) |-> <<>>],
     final_obs      |-> [a \in Range(agent_ids) |-> None],
     dones          |-> [a \in Range(agent_ids) |-> FALSE],
     truncateds     |-> [a \in Range(agent_ids) |-> FALSE],
     log_probs_list |-> <<>>]

\* The mutant of AddStep that has lost the `if not self.dones[agent_id]` test.
AddStepNoDoneTest(t, timestep) ==
    LET a == timestep.agent_id
        now_done == timestep.terminated \/ timestep.truncated
    IN [et |-> [t EXCEPT
                  !.obs_lists[a] = Append(@, timestep.obs),
                  !.action_lists[a] = Append(@, timestep.action),
                  !.reward_lists[a] = Append(@, timestep.reward),
                  !.final_obs[a] = timestep.next_obs,
                  !.dones[a] = IF now_done THEN TRUE ELSE @,
                  !.truncateds[a] = IF now_done THEN timestep.truncated ELSE @],
        added |-> 1]

\* The mutant of AddStep that does not record the truncated flag
AddStepForgetsTruncated(t, timestep) ==
    IF ~t.dones[timestep.agent_id]
    THEN [et |-> [AddStepNoDoneTest(t, timestep).et EXCEPT !.truncateds = t.truncateds],
          added |-> 1]
    ELSE [et |-> t, added |-> 0]

\* The mutant of AddStep that does not record next_obs as final_obs
AddStepForgetsFinalObs(t, timestep) ==
    IF ~t.dones[timestep.agent_id]
    THEN [et |-> [AddStepNoDoneTest(t, timestep).et EXCEPT !.final_obs = t.final_obs],
          added |-> 1]
    ELSE [et |-> t, added |-> 0]

\* The mutant of AddStep that counts a dropped timestep as added
AddStepCountsDropped(t, timestep) ==
    [et |-> IF ~t.dones[timestep.agent_id] THEN AddStepNoDoneTest(t, timestep).et ELSE t,
     added |-> 1]

\* One turn of the loop of add_steps: the tracker after it, and what it adds
\* to steps_added.
AddStep(t, timestep) ==
    LET a == timestep.agent_id
        now_done == timestep.terminated \/ timestep.truncated
    IN IF ~t.dones[a]
       THEN [et |-> [t EXCEPT
                       !.obs_lists[a] = Append(@, timestep.obs),
                       !.action_lists[a] = Append(@, timestep.action),
                       !.reward_lists[a] = Append(@, timestep.reward),
                       !.final_obs[a] = timestep.next_obs,
                       !.dones[a] = IF now_done THEN TRUE ELSE @,
                       !.truncateds[a] = IF now_done THEN timestep.truncated ELSE @],
             added |-> 1]
       ELSE [et |-> t, added |-> 0]

\* The loop of add_steps over timesteps[i..]
RECURSIVE AddStepsFrom(_, _, _, _)
AddStepsFrom(t, timesteps, i, steps_added) ==
    IF i > Len(timesteps)
    THEN [et |-> t, steps_added |-> steps_added]
    ELSE LET r == AddStep(t, timesteps[i])
         IN AddStepsFrom(r.et, timesteps, i + 1, steps_added + r.added)

\* The mutant of add_steps that appends the row only when a step was accepted
AddStepsRowWhenAccepted(t, timesteps, log_probs) ==
    LET r == AddStepsFrom(t, timesteps, 1, 0)
    IN [et |-> IF r.steps_added > 0
               THEN [r.et EXCEPT !.log_probs_list = Append(@, log_probs)]
               ELSE r.et,
        steps_added |-> r.steps_added]

\* EnvTrajectories.add_steps: the tracker after the call and the value returned
add_steps(t, timesteps, log_probs) ==
    LET r == AddStepsFrom(t, timesteps, 1, 0)
    IN [et |-> [r.et EXCEPT !.log_probs_list = Append(@, log_probs)],
        steps_added |-> r.steps_added]

\* The mutant of finalize that marks every agent truncated
FinalizeTruncatesAll(t) ==
    [t EXCEPT
       !.truncateds = [a \in DOMAIN t.truncateds |-> TRUE],
       !.dones = [a \in DOMAIN t.dones |-> TRUE]]

\* EnvTrajectories.finalize
finalize(t) ==
    [t EXCEPT
       !.truncateds = [a \in DOMAIN t.truncateds |-> t.truncateds[a] \/ ~t.dones[a]],
       !.dones = [a \in DOMAIN t.dones |-> TRUE]]

\* torch.stack(self.log_probs_list)[:, idx]  (idx is 0-based in the code)
LogProbColumn(log_probs_list, idx) ==
    [r \in 1..Len(log_probs_list) |-> log_probs_list[r][idx]]

\* EnvTrajectories.get_trajectories (torch.stack raises on an empty list: the
\* callers below only call it on a tracker that has had an add_steps call)
get_trajectories(t) ==
    [idx \in 1..Len(t.agent_ids) |->
        LET agent_id == t.agent_ids[idx]
        IN Trajectory(agent_id,
                      t.obs_lists[agent_id],
                      t.action_lists[agent_id],
                      LogProbColumn(t.log_probs_list, idx),
                      t.reward_lists[agent_id],
                      None,
                      t.final_obs[agent_id],
                      0,
                      t.truncateds[agent_id])]

----------------------------------------------------------------------------
(* Python dict, kept as the sequence of its items in insertion order *)

EmptyDict == <<>>

DictKeys(d) == {d[i].key : i \in 1..Len(d)}

DictGet(d, k) == d[CHOOSE i \in 1..Len(d) : d[i].key = k].val

\* d[k] = v: a new key goes last, an old key keeps its place
DictSet(d, k, v) ==
    IF k \in DictKeys(d)
    THEN [i \in 1..Len(d) |-> IF d[i].key = k THEN [key |-> k, val |-> v] ELSE d[i]]
    ELSE Append(d, [key |-> k, val |-> v])

\* d.pop(k): the dict without k
DictPop(d, k) == SelectSeq(d, LAMBDA item : item.key # k)

\* list(d.values())
DictValues(d) == [i \in 1..Len(d) |-> d[i].val]

----------------------------------------------------------------------------
(* PPOAgentController *)

STEP_RESPONSE == "STEP"
RESET_RESPONSE == "RESET"

\* agent_controller_config.wandb_config naming run id `id` (None when it names none)
WandbConfigModel(id) == <<"WandbConfigModel", id>>

\* wandb_config.id
WandbConfigId(wandb_config) == wandb_config[2]

\* A wandb run whose id is `id`
WandbRun(id) == <<"wandb_run", id>>

\* wandb_run.id
WandbRunId(run) == run[2]

\* The id wandb generates for a run created at clock reading now
GeneratedId(now) == <<"generated", now>>

\* wandb.init(id=id, resume="allow", reinit=True) at clock reading now: the run
\* named id, and with id None a new run under a generated id
WandbInit(id, now) == WandbRun(IF id = None THEN GeneratedId(now) ELSE id)

\* The controller's fields as one value
Controller ==
    [current_env_trajectories       |-> current_env_trajectories,
     current_trajectories           |-> current_trajectories,
     iteration_state_metrics        |-> iteration_state_metrics,
     cur_iteration                  |-> cur_iteration,
     iteration_timesteps            |-> iteration_timesteps,
     cumulative_timesteps           |-> cumulative_timesteps,
     iteration_start_time           |-> iteration_start_time,
     timestep_collection_start_time |-> timestep_collection_start_time,
     ts_since_last_save             |-> ts_since_last_save,
     metrics_logger                 |-> metrics_logger,
     wandb_run_id                   |-> wandb_run_id,
     wandb_run                      |-> wandb_run]

\* What metrics_logger_factory() returns when a factory is given
MetricsLogger == <<"MetricsLogger">>

\* PPOAgentController.__init__, with cur_time the reading of time.perf_counter()
\* and logger the metrics logger made by the factory, None without a factory.
\* wandb_run_id and wandb_run are not assigned before load: None stands for
\* the missing attribute.
NewController(cur_time, logger) ==
    [current_env_trajectories       |-> EmptyDict,
     current_trajectories           |-> <<>>,
     iteration_state_metrics        |-> <<>>,
     cur_iteration                  |-> 0,
     iteration_timesteps            |-> 0,
     cumulative_timesteps           |-> 0,
     iteration_start_time           |-> cur_time,
     timestep_collection_start_time |-> cur_time,
     ts_since_last_save             |-> 0,
     metrics_logger                 |-> logger,
     wandb_run_id                   |-> None,
     wandb_run                      |-> None]

\* The critic collaborator: one value per entry of the flattened request, here
\* the value that names its (0-based) offset in the request.
Critic(agent_id_input, obs_input) ==
    [k \in 1..Len(obs_input) |-> <<"value", k - 1>>]

\* The mutant of TrajTimestepIdxRanges that forgets the slot of final_obs
RECURSIVE RangesWithoutFinalObs(_, _, _)
RangesWithoutFinalObs(trajs, i, start) ==
    IF i > Len(trajs)
    THEN <<>>
    ELSE LET traj_len == Len(trajs[i].obs_list)
             stop == start + traj_len
         IN <<[start |-> start, stop |-> stop + 1]>>
            \o RangesWithoutFinalObs(trajs, i + 1, stop)

\* The first loop of _update_value_predictions: the (start, stop) range of every
\* trajectory of trajs[i..], 0-based and half-open as in the code.
RECURSIVE TrajTimestepIdxRanges(_, _, _)
TrajTimestepIdxRanges(trajs, i, start) ==
    IF i > Len(trajs)
    THEN <<>>
    ELSE LET traj_len == Len(trajs[i].obs_list) + 1
             stop == start + traj_len
         IN <<[start |-> start, stop |-> stop]>>
            \o TrajTimestepIdxRanges(trajs, i + 1, stop)

\* critic_agent_id_input: each trajectory's agent id, once per observation
CriticAgentIdInput(trajs) ==
    Flatten([i \in 1..Len(trajs) |->
                [k \in 1..(Len(trajs[i].obs_list) + 1) |-> trajs[i].agent_id]])

\* critic_obs_input: each trajectory's obs_list + [final_obs]
CriticObsInput(trajs) ==
    Flatten([i \in 1..Len(trajs) |-> Append(trajs[i].obs_list, trajs[i].final_obs)])

\* The mutant of Slice that takes one element more
SliceInclusive(s, start, stop) == SubSeq(s, start + 1, stop + 1)

\* Python's s[start : stop] on a 1-based sequence
Slice(s, start, stop) == SubSeq(s, start + 1, stop)

\* PPOAgentController._update_value_predictions: the trajectories with their
\* value predictions filled in, and the one request made to the critic with
\* its result
_update_value_predictions(trajs) ==
    LET ranges == TrajTimestepIdxRanges(trajs, 1, 0)
        critic_agent_id_input == CriticAgentIdInput(trajs)
        critic_obs_input == CriticObsInput(trajs)
        val_preds == Critic(critic_agent_id_input, critic_obs_input)
    IN [trajectories |->
           [idx \in 1..Len(trajs) |->
               [trajs[idx] EXCEPT
                  !.val_preds = Slice(val_preds, ranges[idx].start, ranges[idx].stop - 1),
                  !.final_val_pred = val_preds[(ranges[idx].stop - 1) + 1]]],
        critic_calls |-> <<[agent_id_input |-> critic_agent_id_input,
                            obs_input      |-> critic_obs_input,
                            val_preds      |-> val_preds]>>]

----------------------------------------------------------------------------
(* PPOAgentController: ingestion, learning step, checkpoint save *)

\* [timestep.agent_id for timestep in env_timesteps]
AgentIdsOf(env_timesteps) ==
    [k \in 1..Len(env_timesteps) |-> env_timesteps[k].agent_id]

\* The loop of process_timestep_data over timestep_data[i..] (the dict's items
\* in order): the trackers, timesteps_added and state_metrics after it.
RECURSIVE IngestFrom(_, _, _, _, _)
IngestFrom(trackers, timestep_data, i, timesteps_added, state_metrics) ==
    IF i > Len(timestep_data)
    THEN [trackers        |-> trackers,
          timesteps_added |-> timesteps_added,
          state_metrics   |-> state_metrics]
    ELSE LET item == timestep_data[i]
             env_id == item.env_id
             created ==
                 IF env_id \notin DictKeys(trackers)
                 THEN DictSet(trackers, env_id,
                              EnvTrajectories(AgentIdsOf(item.env_timesteps)))
                 ELSE trackers
             r == add_steps(DictGet(created, env_id), item.env_timesteps,
                            item.env_log_probs)
         IN IF item.env_timesteps # <<>>
            THEN IngestFrom(DictSet(created, env_id, r.et), timestep_data, i + 1,
                            timesteps_added + r.steps_added,
                            Append(state_metrics, item.env_state_metrics))
            ELSE IngestFrom(trackers, timestep_data, i + 1, timesteps_added,
                            Append(state_metrics, item.env_state_metrics))

\* The mutant of FinalizeOpenTrackers that has lost the call of finalize
OpenTrackersNotFinalized(c) ==
    c.current_trajectories
       \o Flatten([i \in 1..Len(c.current_env_trajectories) |->
                     get_trajectories(c.current_env_trajectories[i].val)])

\* The first loop of _learn: every open tracker finalized and its trajectories
\* appended to current_trajectories, in the order of the dict's values
FinalizeOpenTrackers(c) ==
    c.current_trajectories
       \o Flatten([i \in 1..Len(c.current_env_trajectories) |->
                     get_trajectories(finalize(c.current_env_trajectories[i].val))])

\* The mutant of _learn that zeroes iteration_timesteps before rolling it into
\* ts_since_last_save
LearnZeroesBeforeRoll(c, now) ==
    [controller |->
        [c EXCEPT
           !.iteration_state_metrics = <<>>,
           !.current_env_trajectories = EmptyDict,
           !.current_trajectories = <<>>,
           !.iteration_timesteps = 0,
           !.iteration_start_time = now + 1,
           !.timestep_collection_start_time = now + 2],
     handed |-> _update_value_predictions(FinalizeOpenTrackers(c)).trajectories]

\* PPOAgentController._learn, begun at clock reading `now`: the controller after
\* it and the list handed to experience_buffer.submit_experience.
\* time.perf_counter() is read twice: cur_time = now + 1, then now + 2.
_learn(c, now) ==
    LET handed == _update_value_predictions(FinalizeOpenTrackers(c)).trajectories
    IN [controller |->
           [c EXCEPT
              !.iteration_state_metrics = <<>>,
              !.current_env_trajectories = EmptyDict,
              !.current_trajectories = <<>>,
              !.ts_since_last_save = @ + c.iteration_timesteps,
              !.iteration_timesteps = 0,
              !.iteration_start_time = now + 1,
              !.timestep_collection_start_time = now + 2],
        handed |-> handed]

\* What save_checkpoint writes of the controller into the checkpoint folder
\* (the pickles and the json record; the collaborators' subfolders are theirs)
\* state["wandb_run_id"] = self.wandb_run.id is written when log_to_wandb
CheckpointFiles(c, cfg) ==
    [current_trajectories    |-> c.current_trajectories,
     iteration_state_metrics |-> c.iteration_state_metrics,
     ppo_agent |->
        IF cfg.log_to_wandb
        THEN [cur_iteration                  |-> c.cur_iteration,
              iteration_timesteps            |-> c.iteration_timesteps,
              cumulative_timesteps           |-> c.cumulative_timesteps,
              iteration_start_time           |-> c.iteration_start_time,
              timestep_collection_start_time |-> c.timestep_collection_start_time,
              wandb_run_id                   |-> WandbRunId(c.wandb_run)]
        ELSE [cur_iteration                  |-> c.cur_iteration,
              iteration_timesteps            |-> c.iteration_timesteps,
              cumulative_timesteps           |-> c.cumulative_timesteps,
              iteration_start_time           |-> c.iteration_start_time,
              timestep_collection_start_time |-> c.timestep_collection_start_time]]

\* sorted(existing_checkpoints): the tokens of folder, ascending
RECURSIVE SortedTokens(_)
SortedTokens(tokens) ==
    IF tokens = {} THEN <<>>
    ELSE LET least == CHOOSE t \in tokens : \A u \in tokens : t <= u
         IN <<least>> \o SortedTokens(tokens \ {least})

\* existing_checkpoints[: -n_checkpoints_to_keep] of a sorted list (Python
\* slicing: [: -0] is [: 0], the empty list)
PruneList(sorted, n_checkpoints_to_keep) ==
    IF n_checkpoints_to_keep = 0 THEN <<>>
    ELSE SubSeq(sorted, 1, Len(sorted) - n_checkpoints_to_keep)

\* The pruning at the end of save_checkpoint
Prune(folder, n_checkpoints_to_keep) ==
    IF Len(folder) > n_checkpoints_to_keep
    THEN LET doomed == Range(PruneList(SortedTokens(DictKeys(folder)),
                                       n_checkpoints_to_keep))
         IN SelectSeq(folder, LAMBDA item : item.key \notin doomed)
    ELSE folder

\* PPOAgentController.save_checkpoint with time.time_ns() reading `token`: the
\* checkpoint folder after it
save_checkpoint(c, folder, token, cfg) ==
    Prune(DictSet(folder, token, CheckpointFiles(c, cfg)), cfg.n_checkpoints_to_keep)

\* The order in which save_checkpoint writes, and _load_from_checkpoint reads,
\* the files of a checkpoint
FileOrder == <<"current_trajectories", "iteration_state_metrics", "ppo_agent">>

\* The files of a checkpoint directory whose save raised after `written` files.
\* When the next file was opened and its dump raised, the file exists but
\* cannot be unpickled or parsed: the directory names it under "torn" and has
\* no content for it.
WrittenFiles(c, cfg, written, torn) ==
    LET complete == [f \in {FileOrder[i] : i \in 1..written} |-> CheckpointFiles(c, cfg)[f]]
    IN IF torn THEN complete @@ ("torn" :> FileOrder[written + 1]) ELSE complete

\* The ways save_checkpoint can raise while writing: in os.makedirs (no
\* directory), or later with 0, 1 or 2 of its files complete
SaveFailures ==
    {[dir |-> FALSE, written |-> 0, torn |-> FALSE]}
       \cup {[dir |-> TRUE, written |-> k, torn |-> t] : k \in 0..2, t \in BOOLEAN}

\* The mutant of SaveCheckpointRaises that prunes before it writes
SaveCheckpointPrunesFirst(c, folder, token, cfg, failure) ==
    IF failure.dir
    THEN Prune(DictSet(folder, token, WrittenFiles(c, cfg, failure.written, failure.torn)),
               cfg.n_checkpoints_to_keep)
    ELSE folder

\* PPOAgentController.save_checkpoint raising as `failure` says: the exception
\* leaves the function before the prune
SaveCheckpointRaises(c, folder, token, cfg, failure) ==
    IF failure.dir
    THEN DictSet(folder, token, WrittenFiles(c, cfg, failure.written, failure.torn))
    ELSE folder

\* self.metrics_logger.save_checkpoint(...) is called with no test of
\* metrics_logger: on None it raises AttributeError
SaveRaisesOnMetricsLogger(c) == c.metrics_logger = None

\* How save_checkpoint has raised then: after os.makedirs and the learner's and
\* the experience buffer's saves, before the first of its own files is opened
MetricsLoggerFailure == [dir |-> TRUE, written |-> 0, torn |-> FALSE]

\* open(...) and pickle.load / json.load succeed on file f of a directory
Readable(files, f) == f \in DOMAIN files

\* The mutant of _load_from_checkpoint that assigns each file's data as soon as
\* it has read it
LoadAssignsAsRead(c, files) ==
    IF ~Readable(files, "current_trajectories")
    THEN [controller |-> c, raised |-> TRUE]
    ELSE IF ~Readable(files, "iteration_state_metrics")
    THEN [controller |-> [c EXCEPT !.current_trajectories = files.current_trajectories],
          raised |-> TRUE]
    ELSE IF ~Readable(files, "ppo_agent")
    THEN [controller |->
             [c EXCEPT !.current_trajectories = files.current_trajectories,
                       !.iteration_state_metrics = files.iteration_state_metrics],
          raised |-> TRUE]
    ELSE [controller |->
             [c EXCEPT
                !.current_trajectories           = files.current_trajectories,
                !.iteration_state_metrics        = files.iteration_state_metrics,
                !.cur_iteration                  = files.ppo_agent.cur_iteration,
                !.iteration_timesteps            = files.ppo_agent.iteration_timesteps,
                !.cumulative_timesteps           = files.ppo_agent.cumulative_timesteps,
                !.iteration_start_time           = files.ppo_agent.iteration_start_time,
                !.timestep_collection_start_time =
                    files.ppo_agent.timestep_collection_start_time,
                !.wandb_run_id =
                    IF "wandb_run_id" \in DOMAIN files.ppo_agent
                    THEN files.ppo_agent.wandb_run_id
                    ELSE None],
          raised |-> FALSE]

\* PPOAgentController._load_from_checkpoint on controller c, reading the files
\* of one checkpoint directory: the three files are read first, in FileOrder,
\* and an exception of open / pickle.load / json.load leaves the function; the
\* fields are assigned after the third read
_load_from_checkpoint(c, files) ==
    IF \E i \in 1..Len(FileOrder) : ~Readable(files, FileOrder[i])
    THEN [controller |-> c, raised |-> TRUE]
    ELSE [controller |->
             [c EXCEPT
                !.current_trajectories           = files.current_trajectories,
                !.iteration_state_metrics        = files.iteration_state_metrics,
                !.cur_iteration                  = files.ppo_agent.cur_iteration,
                !.iteration_timesteps            = files.ppo_agent.iteration_timesteps,
                !.cumulative_timesteps           = files.ppo_agent.cumulative_timesteps,
                !.iteration_start_time           = files.ppo_agent.iteration_start_time,
                !.timestep_collection_start_time =
                    files.ppo_agent.timestep_collection_start_time,
                !.wandb_run_id =
                    IF "wandb_run_id" \in DOMAIN files.ppo_agent
                    THEN files.ppo_agent.wandb_run_id
                    ELSE None],
          raised |-> FALSE]

\* PPOAgentController._load_wandb at clock reading now, with resumes standing
\* for checkpoint_load_folder is not None: wandb_run_id becomes the
\* configuration's id when resuming with one, and None otherwise, whatever
\* _load_from_checkpoint assigned to it; wandb.init is given that id
_load_wandb(c, cfg, resumes, now) ==
    LET id == IF resumes /\ WandbConfigId(cfg.wandb_config) # None
              THEN WandbConfigId(cfg.wandb_config)
              ELSE None
    IN [c EXCEPT !.wandb_run_id = id, !.wandb_run = WandbInit(id, now)]

\* The end of PPOAgentController.load given the outcome r of the checkpoint
\* read: an exception of the read leaves load
LoadWandb(r, cfg, resumes, now) ==
    IF r.raised THEN r
    ELSE [controller |-> IF cfg.log_to_wandb
                         THEN _load_wandb(r.controller, cfg, resumes, now)
                         ELSE [r.controller EXCEPT !.wandb_run = None],
          raised |-> FALSE]

\* PPOAgentController.load(config) on the controller c just constructed, with
\* checkpoint_load_folder naming the directory that holds files
load(c, cfg, files, now) ==
    LoadWandb(_load_from_checkpoint(c, files), cfg, TRUE, now)

\* PPOAgentController.load(config) with checkpoint_load_folder None
LoadWithoutCheckpoint(c, cfg, now) ==
    LoadWandb([controller |-> c, raised |-> FALSE], cfg, FALSE, now)

\* The mutant of LearnsNow that waits for the threshold to be exceeded
LearnsNowStrict(c, cfg) == c.iteration_timesteps > cfg.timesteps_per_iteration

\* The test that triggers the learning step
LearnsNow(c, cfg) == c.iteration_timesteps >= cfg.timesteps_per_iteration

\* The mutant of SavesNow that counts the timesteps not yet learned from
SavesNowCountsIteration(c, cfg) ==
    c.ts_since_last_save + c.iteration_timesteps >= cfg.save_every_ts

\* The mutant of SavesNow that waits for the threshold to be exceeded
SavesNowStrict(c, cfg) == c.ts_since_last_save > cfg.save_every_ts

\* The test that triggers the checkpoint save
SavesNow(c, cfg) == c.ts_since_last_save >= cfg.save_every_ts

\* PPOAgentController.process_timestep_data: the controller, the clock and the
\* checkpoint folder after the call, with what happened inside it
process_timestep_data(c, timestep_data, cfg, now, folder) ==
    LET ing == IngestFrom(c.current_env_trajectories, timestep_data, 1, 0, <<>>)
        ingested ==
            [c EXCEPT
               !.current_env_trajectories = ing.trackers,
               !.iteration_timesteps = @ + ing.timesteps_added,
               !.cumulative_timesteps = @ + ing.timesteps_added,
               !.iteration_state_metrics = @ \o ing.state_metrics]
        learns == LearnsNow(ingested, cfg)
        \* timestep_collection_end_time = time.perf_counter() is reading now + 1
        learned == _learn(ingested, now + 1)
        after_learn == IF learns THEN learned.controller ELSE ingested
        now_after_learn == IF learns THEN now + 3 ELSE now
        saves == SavesNow(after_learn, cfg)
        \* an exception of save_checkpoint leaves process_timestep_data
        raised == saves /\ SaveRaisesOnMetricsLogger(after_learn)
    IN [controller |-> IF saves /\ ~raised
                       THEN [after_learn EXCEPT !.ts_since_last_save = 0]
                       ELSE after_learn,
        clock      |-> IF saves THEN now_after_learn + 1 ELSE now_after_learn,
        folder     |-> IF raised
                       THEN SaveCheckpointRaises(after_learn, folder, now_after_learn + 1,
                                                 cfg, MetricsLoggerFailure)
                       ELSE IF saves
                       THEN save_checkpoint(after_learn, folder, now_after_learn + 1, cfg)
                       ELSE folder,
        raised     |-> raised,
        timesteps_added |-> ing.timesteps_added,
        ingested   |-> ingested,
        learns     |-> learns,
        handed     |-> IF learns THEN learned.handed ELSE <<>>,
        saves      |-> saves,
        saved      |-> after_learn]

\* The mutant of AllDone that answers for any agent done instead of all
AnyDone(t) == \E a \in DOMAIN t.dones : t.dones[a]

\* done = all(self.current_env_trajectories[env_id].dones.values())
AllDone(t) == \A a \in DOMAIN t.dones : t.dones[a]

\* The loop of choose_env_actions over state_info[i..]
RECURSIVE ChooseFrom(_, _, _, _, _)
ChooseFrom(trackers, trajectories, state_info, i, env_action_responses) ==
    IF i > Len(state_info)
    THEN [trackers |-> trackers, trajectories |-> trajectories,
          env_action_responses |-> env_action_responses]
    ELSE LET env_id == state_info[i]
         IN IF env_id \notin DictKeys(trackers)
            THEN ChooseFrom(trackers, trajectories, state_info, i + 1,
                            DictSet(env_action_responses, env_id, STEP_RESPONSE))
            ELSE LET t == DictGet(trackers, env_id)
                     done == AllDone(t)
                 IN IF done
                    THEN ChooseFrom(DictPop(trackers, env_id),
                                    trajectories \o get_trajectories(t),
                                    state_info, i + 1,
                                    DictSet(env_action_responses, env_id, RESET_RESPONSE))
                    ELSE ChooseFrom(trackers, trajectories, state_info, i + 1,
                                    DictSet(env_action_responses, env_id, STEP_RESPONSE))

\* PPOAgentController.choose_env_actions
choose_env_actions(c, state_info) ==
    LET r == ChooseFrom(c.current_env_trajectories, c.current_trajectories,
                        state_info, 1, EmptyDict)
    IN [controller |-> [c EXCEPT !.current_env_trajectories = r.trackers,
                                 !.current_trajectories = r.trajectories],
        env_action_responses |-> r.env_action_responses]

----------------------------------------------------------------------------
(* Configurations and the state the controller starts in *)

\* agent_controller_config: the three fields the modelled code reads
Config(timesteps_per_iteration, save_every_ts, n_checkpoints_to_keep) ==
    [timesteps_per_iteration |-> timesteps_per_iteration,
     save_every_ts           |-> save_every_ts,
     n_checkpoints_to_keep   |-> n_checkpoints_to_keep,
     log_to_wandb            |-> FALSE,
     wandb_config            |-> None]

\* Configuration cfg with log_to_wandb = True and a wandb_config naming run id
\* `id` (None when it names none)
WithWandb(cfg, id) ==
    [cfg EXCEPT !.log_to_wandb = TRUE, !.wandb_config = WandbConfigModel(id)]

\* The controller as constructed at clock reading 0, under configuration c,
\* with an empty checkpoint folder
ControllerStarts(c) ==
    LET n == NewController(0, MetricsLogger)
    IN /\ current_env_trajectories = n.current_env_trajectories
       /\ current_trajectories = n.current_trajectories
       /\ iteration_state_metrics = n.iteration_state_metrics
       /\ cur_iteration = n.cur_iteration
       /\ iteration_timesteps = n.iteration_timesteps
       /\ cumulative_timesteps = n.cumulative_timesteps
       /\ iteration_start_time = n.iteration_start_time
       /\ timestep_collection_start_time = n.timestep_collection_start_time
       /\ ts_since_last_save = n.ts_since_last_save
       /\ metrics_logger = n.metrics_logger
       /\ wandb_run_id = n.wandb_run_id
       /\ wandb_run = n.wandb_run
       /\ config = c
       /\ clock = 0
       /\ checkpoints = EmptyDict
       /\ calls = 0
       /\ last = [op |-> "__init__"]
       /\ learn_log = <<>>
       /\ saved_controllers = EmptyDict
       /\ accepted_since_reset = {}

\* No EnvTrajectories instance is exercised on its own
UnitIdle ==
    /\ et = EnvTrajectories(<<>>)
    /\ et_last = [op |-> "none"]
    /\ et_active_rows = <<>>

----------------------------------------------------------------------------
(* Spec: the controller fed by its producer *)

\* The order in which a delivery lists the agents of an environment
AgentOrder == <<"A", "B">>

AgentIndex(a) == CHOOSE i \in 1..Len(AgentOrder) : AgentOrder[i] = a

\* (terminated, truncated) of a timestep the producer delivers
ProducerFlags == {<<FALSE, FALSE>>, <<TRUE, FALSE>>, <<FALSE, TRUE>>}

\* The agents that act in each environment: e1 is a two-agent environment, e2
\* a single-agent one
EnvAgents(env_id) == IF env_id = "e1" THEN {"A", "B"} ELSE {"A"}

\* The agents a delivery for env_id may name: those of its tracker when it has
\* one (the agent set is fixed at first sight), any agent of the environment
\* otherwise
DeliverableAgents(trackers, env_id) ==
    IF env_id \in DictKeys(trackers)
    THEN Range(DictGet(trackers, env_id).agent_ids)
    ELSE EnvAgents(env_id)

\* The deliveries for one environment: at most one timestep per agent, the
\* agents in AgentOrder, each with its flags; possibly no timestep at all
EnvShapes(trackers, env_id) ==
    {shape \in SeqsUpTo(DeliverableAgents(trackers, env_id) \X ProducerFlags,
                        Len(AgentOrder)) :
        \A i, j \in 1..Len(shape) :
           i < j => AgentIndex(shape[i][1]) < AgentIndex(shape[j][1])}

\* The item of timestep_data for env_id: (env_timesteps, env_log_probs,
\* env_state_metrics), every payload tagged with the environment and the number
\* of the row it will make in the environment's tracker
TimestepDataItem(trackers, env_id, shape) ==
    LET tracked == env_id \in DictKeys(trackers)
        n == IF tracked THEN Len(DictGet(trackers, env_id).log_probs_list) + 1 ELSE 1
        width == IF tracked THEN Len(DictGet(trackers, env_id).agent_ids)
                 ELSE Len(shape)
    IN [env_id            |-> env_id,
        env_timesteps     |-> [i \in 1..Len(shape) |->
                                 Timestep(shape[i][1], <<env_id, n, i>>,
                                          shape[i][2][1], shape[i][2][2])],
        env_log_probs     |-> LogProbRow(<<env_id, n>>, width),
        env_state_metrics |-> <<"state_metrics", env_id, n>>]

\* The order in which a delivery lists the environments
EnvOrder == <<"e1", "e2">>

EnvIndex(e) == CHOOSE i \in 1..Len(EnvOrder) : EnvOrder[i] = e

\* The environments of one delivery: some of them, in EnvOrder
DeliveryEnvLists ==
    {envs \in SeqsUpTo(Envs, Cardinality(Envs)) :
        /\ envs # <<>>
        /\ \A i, j \in 1..Len(envs) : i < j => EnvIndex(envs[i]) < EnvIndex(envs[j])}

\* The key orders of a dict over some of the environments
EnvLists == {envs \in SeqsUpTo(Envs, Cardinality(Envs)) :
                envs # <<>> /\ IsInjective(envs)}

\* One delivery per environment of envs
ShapesFor(trackers, envs) ==
    IF Len(envs) = 1
    THEN {<<s1>> : s1 \in EnvShapes(trackers, envs[1])}
    ELSE EnvShapes(trackers, envs[1]) \X EnvShapes(trackers, envs[2])

Configs == {Config(3, 4, 1), Config(6, 6, 1)}

Init ==
    /\ \E c \in Configs : ControllerStarts(c)
    /\ UnitIdle

\* The controller's fields are those of c
SetControllerTo(c) ==
    /\ current_env_trajectories = c.current_env_trajectories
    /\ current_trajectories = c.current_trajectories
    /\ iteration_state_metrics = c.iteration_state_metrics
    /\ cur_iteration = c.cur_iteration
    /\ iteration_timesteps = c.iteration_timesteps
    /\ cumulative_timesteps = c.cumulative_timesteps
    /\ iteration_start_time = c.iteration_start_time
    /\ timestep_collection_start_time = c.timestep_collection_start_time
    /\ ts_since_last_save = c.ts_since_last_save
    /\ metrics_logger = c.metrics_logger
    /\ wandb_run_id = c.wandb_run_id
    /\ wandb_run = c.wandb_run

SetController(c) ==
    /\ current_env_trajectories' = c.current_env_trajectories
    /\ current_trajectories' = c.current_trajectories
    /\ iteration_state_metrics' = c.iteration_state_metrics
    /\ cur_iteration' = c.cur_iteration
    /\ iteration_timesteps' = c.iteration_timesteps
    /\ cumulative_timesteps' = c.cumulative_timesteps
    /\ iteration_start_time' = c.iteration_start_time
    /\ timestep_collection_start_time' = c.timestep_collection_start_time
    /\ ts_since_last_save' = c.ts_since_last_save
    /\ metrics_logger' = c.metrics_logger
    /\ wandb_run_id' = c.wandb_run_id
    /\ wandb_run' = c.wandb_run

\* Number of steps a tracker holds
StepsOfTracker(t) ==
    SumSeq([i \in 1..Len(t.agent_ids) |-> Len(t.obs_lists[t.agent_ids[i]])])

\* Number of steps the tracker of env_id holds (none when it has no tracker)
StepsOfEnv(trackers, env_id) ==
    IF env_id \in DictKeys(trackers) THEN StepsOfTracker(DictGet(trackers, env_id)) ELSE 0

\* process_timestep_data(timestep_data) runs to its end on the controller
Deliver(timestep_data) ==
    /\ \E r \in {process_timestep_data(Controller, timestep_data, config, clock,
                                       checkpoints)} :
          /\ SetController(r.controller)
          /\ clock' = r.clock
          /\ checkpoints' = r.folder
          /\ last' = [op              |-> "process_timestep_data",
                      timestep_data   |-> timestep_data,
                      timesteps_added |-> r.timesteps_added,
                      ingested        |-> r.ingested,
                      learns          |-> r.learns,
                      handed          |-> r.handed,
                      after_learn     |-> r.saved,
                      saves           |-> r.saves,
                      raised          |-> r.raised]
          /\ accepted_since_reset' =
                accepted_since_reset
                   \cup {e \in {timestep_data[i].env_id : i \in 1..Len(timestep_data)} :
                           StepsOfEnv(r.ingested.current_env_trajectories, e)
                              > StepsOfEnv(current_env_trajectories, e)}
          /\ learn_log' = IF r.learns
                          THEN Append(learn_log, StepsIn(r.handed))
                          ELSE learn_log
          /\ saved_controllers' =
                IF r.saves /\ ~r.raised
                THEN DictSet(saved_controllers, r.clock, r.saved)
                ELSE saved_controllers
    /\ calls' = calls + 1
    /\ UNCHANGED <<config, unitVars>>

\* The producer delivers timestep_data and process_timestep_data runs to its end
ProcessTimestepData ==
    /\ calls < MaxCalls
    /\ \E envs \in DeliveryEnvLists :
       \E shapes \in ShapesFor(current_env_trajectories, envs) :
          Deliver([i \in 1..Len(envs) |->
                     TimestepDataItem(current_env_trajectories, envs[i], shapes[i])])

\* The producer asks for the environments' next actions
ChooseEnvActions ==
    /\ \E state_info \in EnvLists :
       \E r \in {choose_env_actions(Controller, state_info)} :
             /\ SetController(r.controller)
             /\ last' = [op                   |-> "choose_env_actions",
                         state_info           |-> state_info,
                         before               |-> Controller,
                         env_action_responses |-> r.env_action_responses]
             /\ accepted_since_reset' =
                   accepted_since_reset
                      \ {e \in DictKeys(r.env_action_responses) :
                            DictGet(r.env_action_responses, e) = RESET_RESPONSE}
    /\ UNCHANGED <<envVars, learn_log, saved_controllers, unitVars>>

Next == ProcessTimestepData \/ ChooseEnvActions

Spec == Init /\ [][Next]_vars

----------------------------------------------------------------------------
(* SpecCheckpoint: the controller with checkpoints saved and loaded from outside *)

InitCheckpoint ==
    /\ ControllerStarts(Config(3, 2, 1))
    /\ UnitIdle

\* save_checkpoint() runs to its end on the controller as it stands
SaveCheckpointReturns ==
    /\ ~SaveRaisesOnMetricsLogger(Controller)
    /\ \E token \in {clock + 1} :
          /\ checkpoints' = save_checkpoint(Controller, checkpoints, token, config)
          /\ clock' = token
          /\ saved_controllers' = DictSet(saved_controllers, token, Controller)
          /\ last' = [op     |-> "save_checkpoint",
                      token  |-> token,
                      raised |-> FALSE,
                      before |-> checkpoints]
    /\ UNCHANGED <<ctrlVars, config, calls, learn_log, accepted_since_reset, unitVars>>

\* save_checkpoint() called from outside process_timestep_data
SaveCheckpoint ==
    /\ Len(saved_controllers) < MaxSaves
    /\ SaveCheckpointReturns

\* The run id a configuration may name
ConfiguredId == <<"configured", 0>>

\* The configurations a run under cfg may be resumed with
LoadConfigs(cfg) ==
    IF cfg.log_to_wandb
    THEN {WithWandb(cfg, None), WithWandb(cfg, ConfiguredId)}
    ELSE {cfg}

\* A fresh controller is constructed and loads one of the directories of the
\* checkpoint folder, under a configuration that differs from the run's at most
\* in the wandb run id it names
Load ==
    /\ \E token \in DictKeys(checkpoints) :
       \E cfg \in LoadConfigs(config) :
       \E r \in {load(NewController(clock, metrics_logger), cfg,
                       DictGet(checkpoints, token), clock)} :
          /\ SetController(r.controller)
          /\ config' = cfg
          /\ last' = [op     |-> "load",
                      token  |-> token,
                      raised |-> r.raised,
                      before |-> NewController(clock, metrics_logger)]
    /\ UNCHANGED <<clock, checkpoints, calls, learn_log, saved_controllers,
                   accepted_since_reset, unitVars>>

NextCheckpoint == ProcessTimestepData \/ ChooseEnvActions \/ SaveCheckpoint \/ Load

SpecCheckpoint == InitCheckpoint /\ [][NextCheckpoint]_vars

----------------------------------------------------------------------------
(* SpecPrune: save_checkpoint on a run directory that already holds checkpoints *)

\* A run directory holding the checkpoints `tokens`, as earlier saves of a
\* controller that had ingested nothing would have left them
FolderOf(tokens) ==
    [i \in 1..Cardinality(tokens) |->
        [key |-> SortedTokens(tokens)[i],
         val |-> CheckpointFiles(NewController(0, MetricsLogger), Config(1, 1, 1))]]

InitPrune ==
    /\ SetControllerTo(NewController(0, MetricsLogger))
    /\ \E n \in 0..MaxKeep : config = Config(MaxTokens + 2, MaxTokens + 2, n)
    /\ \E tokens \in SUBSET (1..MaxTokens) : checkpoints = FolderOf(tokens)
    /\ clock = MaxTokens
    /\ calls = 0
    /\ last = [op |-> "__init__"]
    /\ learn_log = <<>>
    /\ saved_controllers = EmptyDict
    /\ accepted_since_reset = {}
    /\ UnitIdle

NextPrune == SaveCheckpoint

SpecPrune == InitPrune /\ [][NextPrune]_vars

----------------------------------------------------------------------------
(* SpecScenario: one two-agent environment driven through three deliveries *)

\* The agents and flags of the n-th delivery for environment e1: both agents
\* step; then A terminates while B steps; then B alone is truncated. The
\* producer may list the two agents of a delivery in either order.
ScenarioShapes(n) ==
    IF n = 1
    THEN {<<<<"A", <<FALSE, FALSE>>>>, <<"B", <<FALSE, FALSE>>>>>>,
          <<<<"B", <<FALSE, FALSE>>>>, <<"A", <<FALSE, FALSE>>>>>>}
    ELSE IF n = 2
    THEN {<<<<"A", <<TRUE, FALSE>>>>, <<"B", <<FALSE, FALSE>>>>>>,
          <<<<"B", <<FALSE, FALSE>>>>, <<"A", <<TRUE, FALSE>>>>>>}
    ELSE {<<<<"B", <<FALSE, TRUE>>>>>>}

\* Configurations whose timesteps_per_iteration the five steps do not reach
ScenarioConfigs == {Config(t, s, 1) : t \in {6, 7}, s \in {1, 4}}

InitScenario ==
    /\ \E c \in ScenarioConfigs : ControllerStarts(c)
    /\ UnitIdle

\* The next delivery of the scenario
ScenarioDelivery ==
    /\ calls < 3
    /\ \E shape \in ScenarioShapes(calls + 1) :
          Deliver(<<TimestepDataItem(current_env_trajectories, "e1", shape)>>)

NextScenario == ScenarioDelivery \/ ChooseEnvActions

SpecScenario == InitScenario /\ [][NextScenario]_vars

----------------------------------------------------------------------------
(* SpecFailure: checkpoint saves that may raise, and loads of what they left *)

\* Configurations that never learn within the run, keeping 1 or 2 checkpoints
FailureConfigs == {Config(8, 8, n) : n \in {1, 2}}

InitFailure ==
    /\ \E c \in FailureConfigs : ControllerStarts(c)
    /\ UnitIdle

\* A delivery for the single-agent environment
DeliverOne ==
    /\ calls < MaxCalls
    /\ \E shape \in EnvShapes(current_env_trajectories, "e2") :
          Deliver(<<TimestepDataItem(current_env_trajectories, "e2", shape)>>)

\* save_checkpoint() is called and returns
SaveAttemptReturns ==
    /\ clock < MaxAttempts
    /\ SaveCheckpointReturns

\* save_checkpoint() is called and raises while writing
SaveAttemptRaises ==
    /\ clock < MaxAttempts
    /\ \E token \in {clock + 1} :
       \E failure \in SaveFailures :
          /\ checkpoints' = SaveCheckpointRaises(Controller, checkpoints, token,
                                                 config, failure)
          /\ clock' = token
          /\ last' = [op      |-> "save_checkpoint",
                      token   |-> token,
                      raised  |-> TRUE,
                      before  |-> checkpoints]
    /\ UNCHANGED <<ctrlVars, config, calls, learn_log, saved_controllers,
                   accepted_since_reset, unitVars>>

NextFailure == DeliverOne \/ SaveAttemptReturns \/ SaveAttemptRaises \/ Load

SpecFailure == InitFailure /\ [][NextFailure]_vars

----------------------------------------------------------------------------
(* SpecOptional: a controller constructed with or without a metrics logger *)

\* A configuration that learns and saves at the second timestep, and one that
\* does neither within the run
OptionalConfigs == {Config(2, 2, 1), Config(8, 8, 1)}

InitOptional ==
    /\ \E logger \in {None, MetricsLogger} : SetControllerTo(NewController(0, logger))
    /\ config \in OptionalConfigs
    /\ clock = 0
    /\ checkpoints = EmptyDict
    /\ calls = 0
    /\ last = [op |-> "__init__"]
    /\ learn_log = <<>>
    /\ saved_controllers = EmptyDict
    /\ accepted_since_reset = {}
    /\ UnitIdle

\* save_checkpoint() is called on a controller without a metrics logger and
\* raises at self.metrics_logger.save_checkpoint
SaveAttemptWithoutMetricsLogger ==
    /\ clock < MaxAttempts
    /\ SaveRaisesOnMetricsLogger(Controller)
    /\ \E token \in {clock + 1} :
          /\ checkpoints' = SaveCheckpointRaises(Controller, checkpoints, token,
                                                 config, MetricsLoggerFailure)
          /\ clock' = token
          /\ last' = [op      |-> "save_checkpoint",
                      token   |-> token,
                      raised  |-> TRUE,
                      before  |-> checkpoints]
    /\ UNCHANGED <<ctrlVars, config, calls, learn_log, saved_controllers,
                   accepted_since_reset, unitVars>>

NextOptional ==
    DeliverOne \/ SaveAttemptReturns \/ SaveAttemptWithoutMetricsLogger \/ Load

SpecOptional == InitOptional /\ [][NextOptional]_vars

----------------------------------------------------------------------------
(* SpecResume: a run that logs to wandb, saved and resumed from its checkpoints *)

\* Configurations with log_to_wandb that never learn within the run and keep
\* two checkpoints, naming a run id or none
ResumeConfigs == {WithWandb(Config(8, 8, 2), id) : id \in {None, ConfiguredId}}

\* The controller as constructed and loaded with no checkpoint_load_folder
InitResume ==
    /\ \E cfg \in ResumeConfigs :
          /\ config = cfg
          /\ SetControllerTo(
                LoadWithoutCheckpoint(NewController(0, MetricsLogger), cfg, 0).controller)
    /\ clock = 0
    /\ checkpoints = EmptyDict
    /\ calls = 0
    /\ last = [op |-> "load", raised |-> FALSE, token |-> None]
    /\ learn_log = <<>>
    /\ saved_controllers = EmptyDict
    /\ accepted_since_reset = {}
    /\ UnitIdle

NextResume == DeliverOne \/ SaveAttemptReturns \/ Load

SpecResume == InitResume /\ [][NextResume]_vars

----------------------------------------------------------------------------
(* SpecBackfill: _update_value_predictions applied to a completed list *)

\* A completed trajectory of agent a with n steps, the i-th of its list
CompletedTrajectory(a, n, i) ==
    Trajectory(a,
               [k \in 1..n |-> <<"obs", i, k>>],
               [k \in 1..n |-> <<"action", i, k>>],
               [k \in 1..n |-> <<"log_prob", i, k>>],
               [k \in 1..n |-> <<"reward", i, k>>],
               None,
               <<"next_obs", i, n>>,
               0,
               FALSE)

\* The completed lists: up to MaxTrajs trajectories of up to MaxTrajLen steps
CompletedLists ==
    {[i \in 1..Len(shape) |-> CompletedTrajectory(shape[i][1], shape[i][2], i)] :
        shape \in SeqsUpTo(Agents \X (0..MaxTrajLen), MaxTrajs)}

InitBackfill ==
    /\ current_trajectories \in CompletedLists
    /\ current_env_trajectories = EmptyDict
    /\ iteration_state_metrics = <<>>
    /\ cur_iteration = 0
    /\ iteration_timesteps = StepsIn(current_trajectories)
    /\ cumulative_timesteps = StepsIn(current_trajectories)
    /\ iteration_start_time = 0
    /\ timestep_collection_start_time = 0
    /\ ts_since_last_save = 0
    /\ metrics_logger = MetricsLogger
    /\ wandb_run_id = None
    /\ wandb_run = None
    /\ config = Config(MaxTrajs * MaxTrajLen + 1, MaxTrajs * MaxTrajLen + 1, 1)
    /\ clock = 0
    /\ checkpoints = EmptyDict
    /\ calls = 0
    /\ last = [op |-> "__init__"]
    /\ learn_log = <<>>
    /\ saved_controllers = EmptyDict
    /\ accepted_since_reset = {}
    /\ UnitIdle

\* self._update_value_predictions() on the completed list
UpdateValuePredictions ==
    /\ last.op = "__init__"
    /\ \E r \in {_update_value_predictions(current_trajectories)} :
          /\ current_trajectories' = r.trajectories
          /\ last' = [op           |-> "_update_value_predictions",
                      before       |-> current_trajectories,
                      critic_calls |-> r.critic_calls]
    /\ UNCHANGED <<current_env_trajectories, iteration_state_metrics, cur_iteration,
                   iteration_timesteps, cumulative_timesteps, iteration_start_time,
                   timestep_collection_start_time, ts_since_last_save,
                   metrics_logger, wandb_run_id, wandb_run, envVars,
                   learn_log, saved_controllers, accepted_since_reset, unitVars>>

NextBackfill == UpdateValuePredictions

SpecBackfill == InitBackfill /\ [][NextBackfill]_vars


----------------------------------------------------------------------------
(* SpecTracker: one EnvTrajectories instance, called directly *)

\* the agent lists a tracker is seeded with: distinct agents, in any order
AgentIdLists == {ids \in SeqsUpTo(Agents, Cardinality(Agents)) :
                    ids # <<>> /\ IsInjective(ids)}

\* (terminated, truncated) of a timestep
Flags == BOOLEAN \X BOOLEAN

\* The timesteps of the n-th add_steps call: `shape` gives, per position, the
\* agent and its flags
TimestepsOfCall(shape, n) ==
    [i \in 1..Len(shape) |->
        Timestep(shape[i][1], <<n, i>>, shape[i][2][1], shape[i][2][2])]

\* A call on tracker t carries at most as many timesteps as t has agents (they
\* may be of the same agent)
MaxBatchLen(t) == Len(t.agent_ids)

InitTracker ==
    /\ ControllerStarts(Config(6, 3, 1))
    /\ \E ids \in AgentIdLists :
          /\ et = EnvTrajectories(ids)
          /\ et_active_rows = [a \in Range(ids) |-> 0]
    /\ et_last = [op |-> "__init__"]

\* et.add_steps(timesteps, log_probs), for any timesteps of the tracker's agents
EtAddSteps ==
    /\ Len(et.log_probs_list) < MaxAddCalls
    /\ \E shape \in SeqsUpTo(Range(et.agent_ids) \X Flags, MaxBatchLen(et)) :
          LET n == Len(et.log_probs_list) + 1
              timesteps == TimestepsOfCall(shape, n)
              r == add_steps(et, timesteps, LogProbRow(<<n>>, Len(et.agent_ids)))
          IN /\ et' = r.et
             /\ et_last' = [op          |-> "add_steps",
                            timesteps   |-> timesteps,
                            steps_added |-> r.steps_added,
                            before      |-> et]
             /\ et_active_rows' = [a \in DOMAIN et_active_rows |->
                                     IF et.dones[a] THEN et_active_rows[a]
                                     ELSE et_active_rows[a] + 1]
    /\ UNCHANGED <<ctrlVars, envVars, obsVars>>

\* et.finalize()
EtFinalize ==
    /\ et' = finalize(et)
    /\ et_last' = [op |-> "finalize", before |-> et]
    /\ UNCHANGED <<et_active_rows, ctrlVars, envVars, obsVars>>

\* et.get_trajectories(), on a tracker that has had an add_steps call
EtGetTrajectories ==
    /\ et.log_probs_list # <<>>
    /\ et_last' = [op |-> "get_trajectories",
                   trajectories |-> get_trajectories(et),
                   before |-> et]
    /\ UNCHANGED <<et, et_active_rows, ctrlVars, envVars, obsVars>>

NextTracker == EtAddSteps \/ EtFinalize \/ EtGetTrajectories

SpecTracker == InitTracker /\ [][NextTracker]_vars

----------------------------------------------------------------------------
(* Claims about EnvTrajectories, checked under SpecTracker *)

\* The positions of `timesteps` whose agent is not done when the loop of
\* add_steps reaches them, told from the arguments alone: the agent was not done
\* before the call and no earlier timestep of the call ended its episode.
AcceptedPositions(before, timesteps) ==
    {i \in 1..Len(timesteps) :
        /\ ~before.dones[timesteps[i].agent_id]
        /\ \A j \in 1..(i - 1) :
              timesteps[j].agent_id = timesteps[i].agent_id
                 => ~(timesteps[j].terminated \/ timesteps[j].truncated)}

\* C1 (drop-after-done): an add_steps call leaves every agent that was done
\* before it with the same obs/action/reward sequences, final_obs, done and
\* truncated, and returns the number of timesteps whose agent was not done when
\* the timestep was processed.
C1_DropAfterDone ==
    et_last.op = "add_steps" =>
        /\ \A a \in DOMAIN et_last.before.dones :
              et_last.before.dones[a] =>
                 /\ et.obs_lists[a] = et_last.before.obs_lists[a]
                 /\ et.action_lists[a] = et_last.before.action_lists[a]
                 /\ et.reward_lists[a] = et_last.before.reward_lists[a]
                 /\ et.final_obs[a] = et_last.before.final_obs[a]
                 /\ et.dones[a]
                 /\ et.truncateds[a] = et_last.before.truncateds[a]
        /\ et_last.steps_added
              = Cardinality(AcceptedPositions(et_last.before, et_last.timesteps))

\* C1 witness: a call that carried a timestep of an agent already done (with
\* flags that would have changed its truncated) and also accepted a timestep
C1_Witness ==
    /\ et_last.op = "add_steps"
    /\ et_last.steps_added > 0
    /\ \E i \in 1..Len(et_last.timesteps) :
          LET ts == et_last.timesteps[i]
          IN /\ et_last.before.dones[ts.agent_id]
             /\ ts.truncated # et_last.before.truncateds[ts.agent_id]

\* Every add_steps call so far carried exactly one accepted timestep for every
\* agent that was not yet done when the call began
OneStepPerActiveRow ==
    \A a \in DOMAIN et_active_rows : Len(et.obs_lists[a]) = et_active_rows[a]

\* C2 (row/column alignment): get_trajectories yields one trajectory per seeded
\* agent, and, whatever the pattern of agent completion, each trajectory's
\* log-prob sequence is as long as the number of add_steps calls during which
\* its agent was not yet done, which is the length of its obs, action and
\* reward sequences.
C2_RowColumnAlignment ==
    (et_last.op = "get_trajectories" /\ OneStepPerActiveRow) =>
        /\ Len(et_last.trajectories) = Len(et.agent_ids)
        /\ \A idx \in 1..Len(et_last.trajectories) :
              LET tr == et_last.trajectories[idx]
              IN /\ tr.agent_id = et.agent_ids[idx]
                 /\ Len(tr.log_probs) = et_active_rows[tr.agent_id]
                 /\ Len(tr.log_probs) = Len(tr.obs_list)
                 /\ Len(tr.obs_list) = Len(tr.action_list)
                 /\ Len(tr.obs_list) = Len(tr.reward_list)

----------------------------------------------------------------------------
(* Claims about the controller, checked under Spec *)

\* The trajectories choose_env_actions is to append for state_info[i..]: those
\* of every listed environment whose tracker (before the call) has all agents
\* done, in the order listed
RECURSIVE MovedTrajectories(_, _, _)
MovedTrajectories(trackers, state_info, i) ==
    IF i > Len(state_info) THEN <<>>
    ELSE LET e == state_info[i]
             moved == IF /\ e \in DictKeys(trackers)
                         /\ \A a \in DOMAIN DictGet(trackers, e).dones :
                               DictGet(trackers, e).dones[a]
                      THEN get_trajectories(DictGet(trackers, e))
                      ELSE <<>>
         IN moved \o MovedTrajectories(trackers, state_info, i + 1)

\* C3 (reset/step decision): choose_env_actions answers STEP for an environment
\* with no tracker; RESET for one whose tracker has every agent done, moving its
\* trajectories to the completed list and removing the tracker; STEP for one
\* with an agent not done, leaving its tracker unchanged.  The completed list
\* grows by exactly the moved trajectories, and RESET is never answered for an
\* environment with an agent not yet done.
C3_ResetStepDecision ==
    last.op = "choose_env_actions" =>
        LET was == last.before.current_env_trajectories
            answer(e) == DictGet(last.env_action_responses, e)
        IN /\ DictKeys(last.env_action_responses) = Range(last.state_info)
           /\ \A e \in Range(last.state_info) :
                 IF e \notin DictKeys(was)
                 THEN /\ answer(e) = STEP_RESPONSE
                      /\ e \notin DictKeys(current_env_trajectories)
                 ELSE IF \A a \in DOMAIN DictGet(was, e).dones : DictGet(was, e).dones[a]
                 THEN /\ answer(e) = RESET_RESPONSE
                      /\ e \notin DictKeys(current_env_trajectories)
                 ELSE /\ answer(e) = STEP_RESPONSE
                      /\ e \in DictKeys(current_env_trajectories)
                      /\ DictGet(current_env_trajectories, e) = DictGet(was, e)
           /\ \A e \in Envs \ Range(last.state_info) :
                 /\ (e \in DictKeys(current_env_trajectories)) = (e \in DictKeys(was))
                 /\ e \in DictKeys(was)
                       => DictGet(current_env_trajectories, e) = DictGet(was, e)
           /\ current_trajectories
                 = last.before.current_trajectories
                      \o MovedTrajectories(was, last.state_info, 1)

\* C3 witness: one call that answered RESET for an environment and STEP for
\* another that has a tracker with a done and a not-done agent
C3_Witness ==
    /\ last.op = "choose_env_actions"
    /\ \E e1, e2 \in Range(last.state_info) :
          /\ DictGet(last.env_action_responses, e1) = RESET_RESPONSE
          /\ DictGet(last.env_action_responses, e2) = STEP_RESPONSE
          /\ e2 \in DictKeys(current_env_trajectories)
          /\ \E a, b \in DOMAIN DictGet(current_env_trajectories, e2).dones :
                /\ DictGet(current_env_trajectories, e2).dones[a]
                /\ ~DictGet(current_env_trajectories, e2).dones[b]

\* C4 (a missing tracker means the first observation after a reset): whenever
\* choose_env_actions finds no tracker for an environment, no timestep of that
\* environment has been accepted since it was last answered RESET (or since the
\* start).
C4_MissingTrackerMeansAfterReset ==
    last.op = "choose_env_actions" =>
        \A e \in Range(last.state_info) :
           e \notin DictKeys(last.before.current_env_trajectories)
              => e \notin accepted_since_reset

\* C5 (iteration boundary): the learning step runs inside exactly those
\* process_timestep_data calls after whose ingestion iteration_timesteps >=
\* timesteps_per_iteration, and has reset the iteration when the call returns;
\* so, for a positive threshold, iteration_timesteps < timesteps_per_iteration
\* between any two calls, and no call ingests on top of a reached threshold.
C5_IterationBoundary ==
    /\ config.timesteps_per_iteration > 0
          => iteration_timesteps < config.timesteps_per_iteration
    /\ last.op = "process_timestep_data" =>
          /\ last.learns
                = (last.ingested.iteration_timesteps >= config.timesteps_per_iteration)
          /\ last.learns =>
                /\ iteration_timesteps = 0
                /\ current_env_trajectories = EmptyDict
                /\ current_trajectories = <<>>
                /\ StepsIn(last.handed) > 0
          /\ ~last.learns =>
                /\ iteration_timesteps = last.ingested.iteration_timesteps
                /\ last.handed = <<>>

\* C5 witness: a call whose ingestion brought iteration_timesteps exactly to
\* the threshold, from below, and that ran the learning step
C5_Witness ==
    /\ last.op = "process_timestep_data"
    /\ last.learns
    /\ last.ingested.iteration_timesteps = config.timesteps_per_iteration
    /\ last.timesteps_added < last.ingested.iteration_timesteps

\* The trajectory that agent idx of open tracker t owes a learning step
OwedTrajectory(t, idx) ==
    LET a == t.agent_ids[idx]
    IN [agent_id    |-> a,
        obs_list    |-> t.obs_lists[a],
        action_list |-> t.action_lists[a],
        reward_list |-> t.reward_lists[a],
        final_obs   |-> t.final_obs[a],
        truncated   |-> IF t.dones[a] THEN t.truncateds[a] ELSE TRUE]

\* The same fields of a trajectory
TrajectoryData(tr) ==
    [agent_id    |-> tr.agent_id,
     obs_list    |-> tr.obs_list,
     action_list |-> tr.action_list,
     reward_list |-> tr.reward_list,
     final_obs   |-> tr.final_obs,
     truncated   |-> tr.truncated]

\* C6 (force-finalize at the learning step): the list handed to the experience
\* buffer is the completed list followed by one trajectory per agent of every
\* open tracker, in order, truncated=TRUE for an agent not yet done and the
\* recorded flag for one already done; no accepted step of the iteration is
\* missing from it.
C6_OpenTrackersHanded ==
    (last.op = "process_timestep_data" /\ last.learns) =>
        LET open == last.ingested.current_env_trajectories
            pending == last.ingested.current_trajectories
            owed == Flatten([i \in 1..Len(open) |->
                               [idx \in 1..Len(open[i].val.agent_ids) |->
                                   OwedTrajectory(open[i].val, idx)]])
        IN /\ Len(last.handed) = Len(pending) + Len(owed)
           /\ \A k \in 1..Len(pending) :
                 TrajectoryData(last.handed[k]) = TrajectoryData(pending[k])
           /\ \A k \in 1..Len(owed) :
                 TrajectoryData(last.handed[Len(pending) + k]) = owed[k]
           /\ StepsIn(last.handed) = last.ingested.iteration_timesteps

\* C6 witness: a learning step that found a completed trajectory pending and an
\* open tracker with an agent already done (not truncated) and one not yet done
C6_Witness ==
    /\ last.op = "process_timestep_data"
    /\ last.learns
    /\ last.ingested.current_trajectories # <<>>
    /\ \E i \in 1..Len(last.ingested.current_env_trajectories) :
          LET t == last.ingested.current_env_trajectories[i].val
          IN \E a, b \in DOMAIN t.dones :
                t.dones[a] /\ ~t.truncateds[a] /\ ~t.dones[b]

\* C7 (exactly-once accounting, run started fresh): iteration_timesteps is the
\* number of steps held by the open trackers and the completed list; a learning
\* step is handed exactly iteration_timesteps steps; cumulative_timesteps is the
\* sum handed to all learning steps so far plus iteration_timesteps.
C7_ExactlyOnceAccounting ==
    /\ iteration_timesteps
          = SumSeq([i \in 1..Len(current_env_trajectories) |->
                      StepsOfTracker(current_env_trajectories[i].val)])
            + StepsIn(current_trajectories)
    /\ (last.op = "process_timestep_data" /\ last.learns)
          => StepsIn(last.handed) = last.ingested.iteration_timesteps
    /\ cumulative_timesteps = SumSeq(learn_log) + iteration_timesteps

\* C7 witness: after a learning step, steps of the next iteration are held both
\* by an open tracker and by the completed list
C7_Witness ==
    /\ Len(learn_log) >= 1
    /\ iteration_timesteps > 0
    /\ current_trajectories # <<>>
    /\ current_env_trajectories # EmptyDict

----------------------------------------------------------------------------
(* Claims about the value backfill, checked under SpecBackfill *)

\* L_i, the number of steps of the i-th trajectory (1-based) of list
TrajLen(list, i) == Len(list[i].obs_list)

\* start_i: the 0-based offset of the i-th trajectory in the flattened request
StartOffset(list, i) == SumSeq([j \in 1..(i - 1) |-> TrajLen(list, j) + 1])

\* The value the critic returned at a 0-based offset of its result
ValueAt(call, offset) == call.val_preds[offset + 1]

\* C8 (value backfill offsets): the critic is invoked once with sum(L_i + 1)
\* entries in trajectory order (the agent id L_i + 1 times, the observations
\* then final_obs); trajectory i receives result[start_i .. start_i + L_i - 1]
\* as value_predictions and result[start_i + L_i] as final_value_prediction;
\* the ranges of the trajectories are disjoint and cover the result.
C8_BackfillOffsets ==
    last.op = "_update_value_predictions" =>
        LET list == last.before
            m == Len(list)
            total == SumSeq([i \in 1..m |-> TrajLen(list, i) + 1])
            owned(i) == StartOffset(list, i)..(StartOffset(list, i) + TrajLen(list, i))
        IN /\ Len(last.critic_calls) = 1
           /\ Len(last.critic_calls[1].agent_id_input) = total
           /\ Len(last.critic_calls[1].obs_input) = total
           /\ Len(last.critic_calls[1].val_preds) = total
           /\ Len(current_trajectories) = m
           /\ \A i \in 1..m :
                 LET start == StartOffset(list, i)
                     len == TrajLen(list, i)
                     call == last.critic_calls[1]
                 IN /\ \A k \in 0..len : call.agent_id_input[start + k + 1] = list[i].agent_id
                    /\ \A k \in 0..(len - 1) :
                          call.obs_input[start + k + 1] = list[i].obs_list[k + 1]
                    /\ call.obs_input[start + len + 1] = list[i].final_obs
                    /\ Len(current_trajectories[i].val_preds) = len
                    /\ \A k \in 0..(len - 1) :
                          current_trajectories[i].val_preds[k + 1] = ValueAt(call, start + k)
                    /\ current_trajectories[i].final_val_pred = ValueAt(call, start + len)
                    /\ TrajectoryData(current_trajectories[i]) = TrajectoryData(list[i])
                    /\ current_trajectories[i].log_probs = list[i].log_probs
           /\ \A i, j \in 1..m : i # j => owned(i) \cap owned(j) = {}
           /\ UNION {owned(i) : i \in 1..m} = 0..(total - 1)

\* C8 witness: three trajectories of different lengths were backfilled
C8_Witness ==
    /\ last.op = "_update_value_predictions"
    /\ Len(last.before) = 3
    /\ TrajLen(last.before, 1) # TrajLen(last.before, 2)
    /\ TrajLen(last.before, 2) # TrajLen(last.before, 3)
    /\ TrajLen(last.before, 1) > 0

\* The completed list has trajectories of lengths 3, 1 and 5 and was backfilled
Lengths315 ==
    /\ last.op = "_update_value_predictions"
    /\ Len(last.before) = 3
    /\ TrajLen(last.before, 1) = 3
    /\ TrajLen(last.before, 2) = 1
    /\ TrajLen(last.before, 3) = 5

\* C9 as stated (value backfill example): for lengths [3, 1, 5] the request has
\* 12 entries and trajectory 2 (0-indexed) receives value_predictions from
\* flattened offsets 4..8 with final_value_prediction at offset 8.
C9_ExampleAsStated ==
    Lengths315 =>
        LET call == last.critic_calls[1]
            third == current_trajectories[3]
        IN /\ Len(call.obs_input) = 12
           /\ Len(third.val_preds) = 5
           /\ \A k \in 0..4 : third.val_preds[k + 1] = ValueAt(call, 4 + k)
           /\ third.final_val_pred = ValueAt(call, 8)

\* C9 as amended: for lengths [3, 1, 5] the request has 4 + 2 + 6 = 12 entries
\* and trajectory 2 (0-indexed) receives value_predictions from flattened
\* offsets 6..10 (length 5) with final_value_prediction at offset 11.
C9_ExampleAmended ==
    Lengths315 =>
        LET call == last.critic_calls[1]
            third == current_trajectories[3]
        IN /\ Len(call.obs_input) = 12
           /\ Len(call.val_preds) = 12
           /\ Len(third.val_preds) = 5
           /\ \A k \in 0..4 : third.val_preds[k + 1] = ValueAt(call, 6 + k)
           /\ third.final_val_pred = ValueAt(call, 11)

\* C9 witness: the list of lengths [3, 1, 5] has been backfilled
C9_Witness == Lengths315

----------------------------------------------------------------------------
(* Claims about checkpoints, checked under SpecCheckpoint *)

\* C10 (checkpoint round trip): after a checkpoint is loaded into a fresh
\* controller, the controller has the scalar counters, the open trackers, the
\* accumulated state metrics and the completed list that the controller had
\* when save_checkpoint wrote that checkpoint.
C10_CheckpointRoundTrip ==
    (last.op = "load" /\ last.token \in DictKeys(saved_controllers)) =>
        LET at_save == DictGet(saved_controllers, last.token)
        IN /\ cur_iteration = at_save.cur_iteration
           /\ iteration_timesteps = at_save.iteration_timesteps
           /\ cumulative_timesteps = at_save.cumulative_timesteps
           /\ iteration_start_time = at_save.iteration_start_time
           /\ timestep_collection_start_time = at_save.timestep_collection_start_time
           /\ current_env_trajectories = at_save.current_env_trajectories
           /\ iteration_state_metrics = at_save.iteration_state_metrics
           /\ current_trajectories = at_save.current_trajectories

----------------------------------------------------------------------------
(* Claims about the learning step's bookkeeping, checked under Spec *)

\* C11 (iteration counter): cur_iteration equals the number of learning steps
\* completed since the run started.
C11_IterationCount == cur_iteration = Len(learn_log)

\* C12 (iteration-state reset): right after a learning step the state-metrics
\* list, the open-tracker map and the completed list are empty,
\* iteration_timesteps is 0, ts_since_last_save has grown by the pre-step
\* iteration_timesteps, and cumulative_timesteps is what it was before the step.
C12_IterationStateReset ==
    (last.op = "process_timestep_data" /\ last.learns) =>
        /\ last.after_learn.iteration_state_metrics = <<>>
        /\ last.after_learn.current_env_trajectories = EmptyDict
        /\ last.after_learn.current_trajectories = <<>>
        /\ last.after_learn.iteration_timesteps = 0
        /\ last.after_learn.ts_since_last_save
              = last.ingested.ts_since_last_save + last.ingested.iteration_timesteps
        /\ last.after_learn.cumulative_timesteps = last.ingested.cumulative_timesteps

\* C12 witness: a learning step that found state metrics, an open tracker, a
\* completed trajectory and timesteps already awaiting a save
C12_Witness ==
    /\ last.op = "process_timestep_data"
    /\ last.learns
    /\ last.ingested.iteration_state_metrics # <<>>
    /\ last.ingested.current_env_trajectories # EmptyDict
    /\ last.ingested.iteration_timesteps > 0
    /\ last.ingested.ts_since_last_save > 0

----------------------------------------------------------------------------
(* Claims about retention, checked under SpecPrune *)

\* The n largest of a set of tokens (all of them when there are at most n)
Largest(tokens, n) ==
    {t \in tokens : Cardinality({u \in tokens : u > t}) < n}

\* C13 (retention pruning): after a save, the run directory holds exactly the
\* n_checkpoints_to_keep largest of the tokens that were present after the
\* write (all of them when there are no more than that), for every retention
\* count >= 0.
C13_RetentionPruning ==
    last.op = "save_checkpoint" =>
        DictKeys(checkpoints)
           = Largest(DictKeys(last.before) \cup {last.token},
                     config.n_checkpoints_to_keep)

\* The same for retention counts of at least one
C13_RetentionPruningPositive ==
    (last.op = "save_checkpoint" /\ config.n_checkpoints_to_keep >= 1) =>
        DictKeys(checkpoints)
           = Largest(DictKeys(last.before) \cup {last.token},
                     config.n_checkpoints_to_keep)

\* The example: tokens {1..7} present after the write, retention count 5
C13_Example ==
    (/\ last.op = "save_checkpoint"
     /\ DictKeys(last.before) \cup {last.token} = 1..7
     /\ config.n_checkpoints_to_keep = 5)
        => DictKeys(checkpoints) = 3..7

----------------------------------------------------------------------------
(* Claims about finalize, checked under SpecTracker *)

\* C14 (finalize idempotence): a second finalize() changes nothing; after
\* finalize every agent is done; an agent done before keeps its truncated flag
\* and one not yet done gets truncated = TRUE; the sequences, final_obs and
\* the log-prob rows are what they were.
C14_FinalizeIdempotent ==
    et_last.op = "finalize" =>
        /\ finalize(et) = et
        /\ \A a \in Range(et.agent_ids) :
              /\ et.dones[a]
              /\ et_last.before.dones[a] => et.truncateds[a] = et_last.before.truncateds[a]
              /\ ~et_last.before.dones[a] => et.truncateds[a]
        /\ et.agent_ids = et_last.before.agent_ids
        /\ et.obs_lists = et_last.before.obs_lists
        /\ et.action_lists = et_last.before.action_lists
        /\ et.reward_lists = et_last.before.reward_lists
        /\ et.final_obs = et_last.before.final_obs
        /\ et.log_probs_list = et_last.before.log_probs_list

\* C14 witness: finalize on a tracker with an agent terminated (not truncated)
\* and another agent still active with a step
C14_Witness ==
    /\ et_last.op = "finalize"
    /\ \E a, b \in Range(et.agent_ids) :
          /\ et_last.before.dones[a]
          /\ ~et_last.before.truncateds[a]
          /\ ~et_last.before.dones[b]
          /\ et_last.before.obs_lists[b] # <<>>

----------------------------------------------------------------------------
(* Claims about the three-delivery scenario, checked under SpecScenario *)

\* C15 (end-to-end scenario): after the third delivery A's sequences have
\* length 2 with done and not truncated, B's have length 3 with done and
\* truncated, and the tracker has 3 log-prob rows; the environment is answered
\* RESET only by a decision taken on its tracker after the third delivery, and
\* STEP by every decision before that.
C15_Scenario ==
    /\ (calls = 3 /\ "e1" \in DictKeys(current_env_trajectories)) =>
          LET t == DictGet(current_env_trajectories, "e1")
          IN /\ Len(t.obs_lists["A"]) = 2
             /\ Len(t.action_lists["A"]) = 2
             /\ Len(t.reward_lists["A"]) = 2
             /\ t.dones["A"] /\ ~t.truncateds["A"]
             /\ Len(t.obs_lists["B"]) = 3
             /\ Len(t.action_lists["B"]) = 3
             /\ Len(t.reward_lists["B"]) = 3
             /\ t.dones["B"] /\ t.truncateds["B"]
             /\ Len(t.log_probs_list) = 3
    /\ (last.op = "choose_env_actions" /\ "e1" \in Range(last.state_info)) =>
          /\ calls < 3 => DictGet(last.env_action_responses, "e1") = STEP_RESPONSE
          /\ (calls = 3 /\ "e1" \in DictKeys(last.before.current_env_trajectories))
                => DictGet(last.env_action_responses, "e1") = RESET_RESPONSE

\* C15 witness: the decision after the third delivery, taken after decisions
\* were also asked for earlier (the tracker is gone once RESET is answered)
C15_Witness ==
    /\ calls = 3
    /\ last.op = "choose_env_actions"
    /\ "e1" \in Range(last.state_info)
    /\ DictGet(last.env_action_responses, "e1") = RESET_RESPONSE
    /\ "e1" \notin DictKeys(current_env_trajectories)

----------------------------------------------------------------------------
(* Claims about save scheduling, checked under Spec *)

\* C16 (save scheduling): a process_timestep_data call saves a checkpoint
\* exactly when ts_since_last_save, after the call's learning step (if any)
\* has rolled iteration_timesteps into it, is >= save_every_ts; the counter is
\* 0 after a save and untouched otherwise; so, for a positive threshold,
\* ts_since_last_save < save_every_ts whenever a call has returned.
C16_SaveScheduling ==
    /\ config.save_every_ts > 0 => ts_since_last_save < config.save_every_ts
    /\ last.op = "process_timestep_data" =>
          /\ last.saves = (last.after_learn.ts_since_last_save >= config.save_every_ts)
          /\ last.after_learn.ts_since_last_save
                = last.ingested.ts_since_last_save
                  + (IF last.learns THEN last.ingested.iteration_timesteps ELSE 0)
          /\ last.saves =>
                /\ ts_since_last_save = 0
                /\ clock \in DictKeys(checkpoints)
                /\ DictGet(checkpoints, clock) = CheckpointFiles(last.after_learn, config)
          /\ ~last.saves => ts_since_last_save = last.after_learn.ts_since_last_save

\* C16 witness: a call whose learning step brought ts_since_last_save exactly
\* to save_every_ts and that saved
C16_Witness ==
    /\ last.op = "process_timestep_data"
    /\ last.learns
    /\ last.saves
    /\ last.after_learn.ts_since_last_save = config.save_every_ts

\* C16 second witness: a call that learned without saving was followed by one
\* that learned and saved
C16_WitnessLater ==
    /\ last.op = "process_timestep_data"
    /\ last.saves
    /\ last.ingested.ts_since_last_save > 0

----------------------------------------------------------------------------
(* Claims about failing saves and loads, checked under SpecFailure *)

\* The directory of token t in folder holds the three files, all readable
CompleteIn(folder, t) ==
    /\ t \in DictKeys(folder)
    /\ \A i \in 1..Len(FileOrder) : Readable(DictGet(folder, t), FileOrder[i])

\* The largest token of a non-empty dict
NewestToken(d) == CHOOSE t \in DictKeys(d) : \A u \in DictKeys(d) : u <= t

\* C17 (save-failure safety): a save that raises leaves every directory that
\* existed before it as it was; directories disappear only in a save that has
\* written all files of its own directory; and, for a retention count >= 1,
\* the directory of the most recent save that returned exists with all its
\* files as that save wrote them.
C17_SaveFailureSafety ==
    /\ (last.op = "save_checkpoint" /\ last.raised) =>
          \A t \in DictKeys(last.before) :
             /\ t \in DictKeys(checkpoints)
             /\ DictGet(checkpoints, t) = DictGet(last.before, t)
    /\ (last.op = "save_checkpoint"
          /\ ~(DictKeys(last.before) \subseteq DictKeys(checkpoints))) =>
          /\ ~last.raised
          /\ CompleteIn(checkpoints, last.token)
    /\ (config.n_checkpoints_to_keep >= 1 /\ saved_controllers # EmptyDict) =>
          /\ CompleteIn(checkpoints, NewestToken(saved_controllers))
          /\ DictGet(checkpoints, NewestToken(saved_controllers))
                = CheckpointFiles(DictGet(saved_controllers,
                                          NewestToken(saved_controllers)), config)

\* C17 witness: a save raised with a complete checkpoint in the folder and left
\* a directory with a torn file behind
C17_Witness ==
    /\ last.op = "save_checkpoint"
    /\ last.raised
    /\ saved_controllers # EmptyDict
    /\ last.token \in DictKeys(checkpoints)
    /\ ~CompleteIn(checkpoints, last.token)
    /\ config.n_checkpoints_to_keep = 1

\* C17 second witness: a save returned and pruned a complete directory and one
\* left behind by a save that raised
C17_WitnessPrune ==
    /\ last.op = "save_checkpoint"
    /\ ~last.raised
    /\ \E t, u \in DictKeys(last.before) \ DictKeys(checkpoints) :
          CompleteIn(last.before, t) /\ ~CompleteIn(last.before, u)

\* C18 (load failure is all-or-nothing): loading a directory raises exactly
\* when one of the three files is missing or unreadable, and then every field
\* of the controller is what the constructor made it.
C18_LoadAllOrNothing ==
    last.op = "load" =>
        /\ last.raised = ~CompleteIn(checkpoints, last.token)
        /\ last.raised => Controller = last.before

\* C18 witness: a load raised on a directory whose first two files were
\* readable and held state metrics
C18_Witness ==
    /\ last.op = "load"
    /\ last.raised
    /\ Readable(DictGet(checkpoints, last.token), "current_trajectories")
    /\ Readable(DictGet(checkpoints, last.token), "iteration_state_metrics")
    /\ DictGet(checkpoints, last.token).iteration_state_metrics # <<>>

----------------------------------------------------------------------------
(* Claims about get_trajectories on mismatched trackers, checked under SpecTracker *)

\* C19 (mismatch is an error): get_trajectories returns trajectories only from
\* a tracker in which every agent's obs, action and reward sequences are as
\* long as the number of log-prob rows added while the agent was active; on
\* any other tracker it raises instead of returning.
C19_MismatchNeverReturns ==
    et_last.op = "get_trajectories" =>
        \A a \in DOMAIN et_active_rows :
           /\ Len(et_last.before.obs_lists[a]) = et_active_rows[a]
           /\ Len(et_last.before.action_lists[a]) = et_active_rows[a]
           /\ Len(et_last.before.reward_lists[a]) = et_active_rows[a]

----------------------------------------------------------------------------
(* Claims about materialized trajectories, checked under Spec *)

\* The trajectory has a step and its final_obs is the next_obs of its last step
\* (a timestep's obs and next_obs carry the same tag)
HasStepsAndFinalObs(tr) ==
    /\ Len(tr.obs_list) >= 1
    /\ Len(tr.action_list) = Len(tr.obs_list)
    /\ Len(tr.reward_list) = Len(tr.obs_list)
    /\ tr.final_obs # None
    /\ tr.final_obs = <<"next_obs">> \o Tail(tr.obs_list[Len(tr.obs_list)])

\* C20 (no empty trajectory): every trajectory in the completed list, and every
\* trajectory a learning step hands on, has at least one step and a final_obs
\* that is the next_obs of its agent's last accepted timestep; the request to
\* the critic holds no unset observation.
C20_NoEmptyTrajectory ==
    /\ \A k \in 1..Len(current_trajectories) : HasStepsAndFinalObs(current_trajectories[k])
    /\ (last.op = "process_timestep_data" /\ last.learns) =>
          /\ \A k \in 1..Len(last.handed) : HasStepsAndFinalObs(last.handed[k])
          /\ None \notin Range(CriticObsInput(last.handed))

\* C20 witness: a learning step handed on the trajectory of a tracker that was
\* created from a first batch naming one of the two agents of its environment,
\* after a delivery for it that carried no timestep
C20_Witness ==
    /\ last.op = "process_timestep_data"
    /\ last.learns
    /\ "e1" \in DictKeys(last.ingested.current_env_trajectories)
    /\ Len(DictGet(last.ingested.current_env_trajectories, "e1").agent_ids) = 1
    /\ \E i \in 1..Len(last.timestep_data) :
          /\ last.timestep_data[i].env_id = "e1"
          /\ last.timestep_data[i].env_timesteps = <<>>

\* C20 second witness: a RESET materialized trajectories into the completed list
C20_WitnessReset ==
    /\ last.op = "choose_env_actions"
    /\ Len(current_trajectories) > Len(last.before.current_trajectories)

----------------------------------------------------------------------------
(* Claims about the log-prob history, checked under SpecTracker *)

\* C21 (one row per call): every add_steps call appends exactly its own row to
\* log_probs_list, whatever it accepts; finalize and get_trajectories leave
\* log_probs_list as it was; so the history has one row per call made.
C21_OneRowPerCall ==
    /\ et_last.op = "add_steps" =>
          et.log_probs_list
             = Append(et_last.before.log_probs_list,
                      LogProbRow(<<Len(et_last.before.log_probs_list) + 1>>,
                                 Len(et.agent_ids)))
    /\ et_last.op = "finalize" => et.log_probs_list = et_last.before.log_probs_list
    /\ et_last.op = "get_trajectories" =>
          et.log_probs_list = et_last.before.log_probs_list
    /\ \A k \in 1..Len(et.log_probs_list) :
          et.log_probs_list[k] = LogProbRow(<<k>>, Len(et.agent_ids))

\* C21 witness: an add_steps call that named agents, all of them already done,
\* accepted nothing and still made the second row
C21_Witness ==
    /\ et_last.op = "add_steps"
    /\ et_last.timesteps # <<>>
    /\ et_last.steps_added = 0
    /\ \A a \in Range(et.agent_ids) : et_last.before.dones[a]
    /\ Len(et.log_probs_list) = 2

----------------------------------------------------------------------------
(* Claims about what scheduled saves record, checked under Spec *)

----------------------------------------------------------------------------
(* Claim about saving without a metrics logger, checked under SpecOptional *)

\* C23 (the metrics logger is optional for checkpointing): on a controller
\* constructed without a metrics logger, save_checkpoint, called from outside
\* or by process_timestep_data, returns and has written the completed-list
\* file, the state-metrics file and the ppo_agent record of its directory.
C23_SaveWithoutMetricsLogger ==
    metrics_logger = None =>
        /\ last.op = "save_checkpoint" =>
              /\ ~last.raised
              /\ CompleteIn(checkpoints, last.token)
        /\ (last.op = "process_timestep_data" /\ last.saves) =>
              /\ ~last.raised
              /\ CompleteIn(checkpoints, clock)

\* With a metrics logger every save returned and left its three files
C23_SaveWithMetricsLogger ==
    metrics_logger = MetricsLogger =>
        /\ last.op = "save_checkpoint" =>
              /\ ~last.raised
              /\ CompleteIn(checkpoints, last.token)
        /\ (last.op = "process_timestep_data" /\ last.saves) =>
              /\ ~last.raised
              /\ CompleteIn(checkpoints, clock)

\* A save on a controller without a metrics logger raised and left a directory
\* with none of the three files
C23_RaisedWithoutMetricsLogger ==
    /\ metrics_logger = None
    /\ last.op = "save_checkpoint"
    /\ last.raised
    /\ last.token \in DictKeys(checkpoints)
    /\ DOMAIN DictGet(checkpoints, last.token) = {}

----------------------------------------------------------------------------
(* Claims about the wandb run of a resumed controller, checked under SpecResume *)

\* The run id recorded in the checkpoint the last load read
LoadedRunId == DictGet(checkpoints, last.token).ppo_agent.wandb_run_id

\* The last operation loaded a checkpoint that records a run id
ResumedWithRunId ==
    /\ last.op = "load"
    /\ last.token \in DictKeys(checkpoints)
    /\ ~last.raised
    /\ config.log_to_wandb
    /\ "wandb_run_id" \in DOMAIN DictGet(checkpoints, last.token).ppo_agent

\* C24 (run identity on resume): after a load, with log_to_wandb, of a
\* checkpoint that records a wandb_run_id, the run in use has the checkpoint's
\* id when the configuration names none and the configuration's id when it
\* names one; and every checkpoint written records the id of the run that was
\* in use when it was written.
C24_RunIdentityOnResume ==
    /\ ResumedWithRunId =>
          IF WandbConfigId(config.wandb_config) = None
          THEN WandbRunId(wandb_run) = LoadedRunId
          ELSE WandbRunId(wandb_run) = WandbConfigId(config.wandb_config)
    /\ \A t \in DictKeys(checkpoints) \cap DictKeys(saved_controllers) :
          DictGet(checkpoints, t).ppo_agent.wandb_run_id
             = WandbRunId(DictGet(saved_controllers, t).wandb_run)

\* The parts of C24 that hold: a configured id replaces the checkpoint's, and
\* a save writes the id of the run in use
C24_ConfiguredIdAndSaves ==
    /\ (ResumedWithRunId /\ WandbConfigId(config.wandb_config) # None) =>
          WandbRunId(wandb_run) = WandbConfigId(config.wandb_config)
    /\ \A t \in DictKeys(checkpoints) \cap DictKeys(saved_controllers) :
          DictGet(checkpoints, t).ppo_agent.wandb_run_id
             = WandbRunId(DictGet(saved_controllers, t).wandb_run)

\* A run resumed with no configured id is a new run: its id is neither the
\* checkpoint's nor kept in wandb_run_id
C24_ResumedAsNewRun ==
    /\ ResumedWithRunId
    /\ WandbConfigId(config.wandb_config) = None
    /\ wandb_run_id = None
    /\ WandbRunId(wandb_run) # LoadedRunId

====
